---------------------------- MODULE Spec2Model ----------------------------
(***************************************************************************)
(* A model of api/webhook.py (Notepad-Bot): the in-memory note store kept  *)
(* in the global user_data, the query helpers, the page handlers and the   *)
(* webhook entry point.                                                    *)
(*                                                                         *)
(* Python values are modelled as follows.  A str is a tuple of one-letter  *)
(* strings.  A dict is a function whose DOMAIN is its key set.  A list is  *)
(* a sequence.  None, where a note is expected, is the empty sequence and  *)
(* a found note n is <<n>>.                                                *)
(***************************************************************************)
EXTENDS Integers, Sequences, FiniteSets, TLC

VARIABLES
    user_data,   \* the global user_data: [notes |-> dict, settings |-> dict]
    nAdds,       \* number of note objects created so far (object identities)
    ret,         \* the last call: its operation, arguments and results
    issued,      \* history: per user, the ids returned by add_user_note
                 \* since the user's last /clear
    tasks,       \* the requests in progress, each at one of its awaits
    sched        \* the reminder scheduler: clock, timers, notifications

vars == <<user_data, nAdds, ret, issued, tasks, sched>>

---------------------------------------------------------------------------
(* Bounds of the model *)

MaxAdds == 3        \* add_user_note calls in one run
MaxTime == 2        \* datetime.now() takes the values 0..MaxTime
TicksPerSec == 2    \* clock ticks per second (1000000 in Python)

Users == {1, 2}
Ids == 1..MaxAdds
Times == 0..MaxTime

---------------------------------------------------------------------------
(* Python str *)

UpperChars == <<"A","B","C","D","E","F","G","H","I","J","K","L","M",
                "N","O","P","Q","R","S","T","U","V","W","X","Y","Z">>
LowerChars == <<"a","b","c","d","e","f","g","h","i","j","k","l","m",
                "n","o","p","q","r","s","t","u","v","w","x","y","z">>

UpperSet == {UpperChars[i] : i \in 1..26}
LowerOf == [c \in UpperSet |-> LowerChars[CHOOSE i \in 1..26 : UpperChars[i] = c]]

lower_char(c) == IF c \in UpperSet THEN LowerOf[c] ELSE c

\* s.lower()
str_lower(s) == [i \in 1..Len(s) |-> lower_char(s[i])]

\* q in s
str_in(q, s) ==
    \E i \in 0..(Len(s) - Len(q)) : SubSeq(s, i + 1, i + Len(q)) = q

\* str(user_id)
str_uid(u) == CASE u = 1 -> "1" [] u = 2 -> "2"

---------------------------------------------------------------------------
(* Python dict *)

EmptyDict == <<>>
Has(d, k) == k \in DOMAIN d
Put(d, k, v) == [x \in (DOMAIN d) \cup {k} |-> IF x = k THEN v ELSE d[x]]
Pop(d, k) == [x \in (DOMAIN d) \ {k} |-> d[x]]

---------------------------------------------------------------------------
(* datetime *)

\* datetime.isoformat(): the fraction is left out when it is zero
isoformat(t) ==
    IF t % TicksPerSec = 0
    THEN <<t \div TicksPerSec>>
    ELSE <<t \div TicksPerSec, t % TicksPerSec>>

\* datetime.fromisoformat()
fromisoformat(s) ==
    IF Len(s) = 1 THEN s[1] * TicksPerSec ELSE s[1] * TicksPerSec + s[2]

---------------------------------------------------------------------------
(* sorted(list, key=created_at, reverse=True) *)

Reverse(s) == [i \in 1..Len(s) |-> s[Len(s) + 1 - i]]

created_key(note) == fromisoformat(note.created_at)

\* x goes after every element whose key is not greater: the sort is stable
RECURSIVE insert_stable(_, _)
insert_stable(s, x) ==
    IF s = <<>> THEN <<x>>
    ELSE IF created_key(s[Len(s)]) <= created_key(x)
         THEN Append(s, x)
         ELSE Append(insert_stable(SubSeq(s, 1, Len(s) - 1), x), s[Len(s)])

RECURSIVE sort_ascending(_)
sort_ascending(s) ==
    IF s = <<>> THEN <<>>
    ELSE insert_stable(sort_ascending(SubSeq(s, 1, Len(s) - 1)), s[Len(s)])

\* an ascending sort reversed afterwards: equal keys come out back to front
sorted_then_reversed(s) == Reverse(sort_ascending(s))

\* reverse=True reverses the list before and after a stable ascending sort,
\* which keeps equal keys in their original order
sorted_reverse(s) == Reverse(sort_ascending(Reverse(s)))

---------------------------------------------------------------------------
(* The note helpers: each takes user_data as ud and returns the new        *)
(* user_data with the call's result                                        *)

NotesOf(ud, u) ==
    IF Has(ud.notes, str_uid(u)) THEN ud.notes[str_uid(u)] ELSE <<>>

get_user_notes(ud, u) == sorted_reverse(NotesOf(ud, u))

\* the session dict stored for user u
SessionOf(ud, u) ==
    IF Has(ud.settings, str_uid(u)) THEN ud.settings[str_uid(u)] ELSE EmptyDict

\* add_user_note allocating len(notes) + 1 instead of the counter
add_user_note_by_len(ud, u, title, content, category, now, obj) ==
    LET k == str_uid(u)
        notes1 == IF Has(ud.notes, k) THEN ud.notes ELSE Put(ud.notes, k, <<>>)
        note_id == Len(notes1[k]) + 1
        note == [title |-> title, content |-> content, category |-> category,
                 created_at |-> isoformat(now), note_id |-> note_id, obj |-> obj]
    IN  [ud |-> [notes |-> Put(notes1, k, Append(notes1[k], note)),
                 settings |-> ud.settings],
         raised |-> "", id |-> note_id]

add_user_note(ud, u, title, content, category, now, obj) ==
    LET k == str_uid(u)
        notes1 == IF Has(ud.notes, k) THEN ud.notes ELSE Put(ud.notes, k, <<>>)
        settings1 == IF Has(ud.settings, k) THEN ud.settings
                     ELSE Put(ud.settings, k, [next_note_id |-> 1])
        user_settings == settings1[k]
    IN  IF ~Has(user_settings, "next_note_id")
        THEN [ud |-> [notes |-> notes1, settings |-> settings1],
              raised |-> "KeyError", id |-> 0]
        ELSE LET note_id == user_settings["next_note_id"]
                 note == [title |-> title, content |-> content,
                          category |-> category,
                          created_at |-> isoformat(now),
                          note_id |-> note_id, obj |-> obj]
             IN  [ud |-> [notes |-> Put(notes1, k, Append(notes1[k], note)),
                          settings |-> Put(settings1, k,
                                Put(user_settings, "next_note_id", note_id + 1))],
                  raised |-> "", id |-> note_id]

\* delete_user_note reporting success whenever the user has a note list
delete_user_note_always(ud, u, note_id) ==
    LET k == str_uid(u) IN
    IF Has(ud.notes, k)
    THEN [ud |-> [ud EXCEPT !.notes = Put(ud.notes, k,
                     SelectSeq(ud.notes[k], LAMBDA n : n.note_id # note_id))],
          ok |-> TRUE]
    ELSE [ud |-> ud, ok |-> FALSE]

\* delete_user_note keeping the notes with a smaller id only
delete_user_note_from(ud, u, note_id) ==
    LET k == str_uid(u) IN
    IF Has(ud.notes, k)
    THEN LET kept == SelectSeq(ud.notes[k], LAMBDA n : n.note_id < note_id)
         IN  [ud |-> [ud EXCEPT !.notes = Put(ud.notes, k, kept)],
              ok |-> Len(kept) < Len(ud.notes[k])]
    ELSE [ud |-> ud, ok |-> FALSE]

delete_user_note(ud, u, note_id) ==
    LET k == str_uid(u) IN
    IF Has(ud.notes, k)
    THEN LET kept == SelectSeq(ud.notes[k], LAMBDA n : n.note_id # note_id)
         IN  [ud |-> [ud EXCEPT !.notes = Put(ud.notes, k, kept)],
              ok |-> Len(kept) < Len(ud.notes[k])]
    ELSE [ud |-> ud, ok |-> FALSE]

\* get_user_note looking through the notes of every user
get_user_note_any_user(ud, u, note_id) ==
    LET s == NotesOf(ud, 1) \o NotesOf(ud, 2)
        hits == {i \in 1..Len(s) : s[i].note_id = note_id}
    IN  IF hits = {} THEN <<>>
        ELSE <<s[CHOOSE i \in hits : \A j \in hits : i <= j]>>

get_user_note(ud, u, note_id) ==
    LET s == NotesOf(ud, u)
        hits == {i \in 1..Len(s) : s[i].note_id = note_id}
    IN  IF hits = {} THEN <<>>
        ELSE <<s[CHOOSE i \in hits : \A j \in hits : i <= j]>>


\* update_user_note_category without the id test inside the loop
update_user_note_category_first(ud, u, note_id, new_category) ==
    LET k == str_uid(u)
        s == NotesOf(ud, u)
    IN  IF s = <<>> THEN [ud |-> ud, ok |-> FALSE]
        ELSE [ud |-> [ud EXCEPT !.notes = Put(ud.notes, k,
                         [s EXCEPT ![1] = [s[1] EXCEPT !.category = new_category]])],
              ok |-> TRUE]

update_user_note_category(ud, u, note_id, new_category) ==
    LET k == str_uid(u)
        hit == get_user_note(ud, u, note_id)
    IN  IF hit = <<>> THEN [ud |-> ud, ok |-> FALSE]
        ELSE LET \* the dict found is mutated in place: every list that holds
                 \* this object shows the new category
                 setcat(n) == IF n.obj = hit[1].obj
                              THEN [n EXCEPT !.category = new_category]
                              ELSE n
                 remap(s) == [i \in 1..Len(s) |-> setcat(s[i])]
                 settings2 ==
                     IF Has(ud.settings, k)
                        /\ Has(ud.settings[k], "last_search_results")
                     THEN Put(ud.settings, k,
                              Put(ud.settings[k], "last_search_results",
                                  remap(ud.settings[k]["last_search_results"])))
                     ELSE ud.settings
             IN  [ud |-> [notes |-> Put(ud.notes, k, remap(ud.notes[k])),
                          settings |-> settings2],
                  ok |-> TRUE]

\* note_matches that leaves the category out
note_matches_no_category(query, note) ==
    \/ str_in(query, str_lower(note.title))
    \/ str_in(query, str_lower(note.content))

note_matches(query, note) ==
    \/ str_in(query, str_lower(note.title))
    \/ str_in(query, str_lower(note.content))
    \/ str_in(query, str_lower(note.category))

search_user_notes(ud, u, query) ==
    IF ~Has(ud.notes, str_uid(u)) THEN <<>>
    ELSE sorted_reverse(SelectSeq(ud.notes[str_uid(u)],
                                  LAMBDA n : note_matches(str_lower(query), n)))

\* the effect of clear_command_handler on user_data, and which reply it sends
clear_command_handler(ud, u) ==
    LET k == str_uid(u) IN
    IF Has(ud.notes, k) /\ ud.notes[k] # <<>>
    THEN [ud |-> [notes |-> Put(ud.notes, k, <<>>),
                  settings |-> IF Has(ud.settings, k)
                               THEN Put(ud.settings, k,
                                        Put(ud.settings[k], "next_note_id", 1))
                               ELSE ud.settings],
          ok |-> TRUE]
    ELSE [ud |-> ud, ok |-> FALSE]

---------------------------------------------------------------------------
(* The page handlers *)

NOTES_PER_PAGE == 5

Min(a, b) == IF a < b THEN a ELSE b
Max(a, b) == IF a > b THEN a ELSE b

\* s[a:b]
py_slice(s, a, b) ==
    LET norm(i) == IF i < 0 THEN Max(i + Len(s), 0) ELSE Min(i, Len(s))
    IN  SubSeq(s, norm(a) + 1, norm(b))

\* str(n) for an int n
Digits == <<"0","1","2","3","4","5","6","7","8","9">>
RECURSIVE nat_str(_)
nat_str(n) == IF n < 10 THEN <<Digits[n + 1]>>
              ELSE nat_str(n \div 10) \o <<Digits[(n % 10) + 1]>>
int_str(n) == IF n < 0 THEN <<"-">> \o nat_str(-n) ELSE nat_str(n)

W_view_notes_page_ == <<"v","i","e","w","_","n","o","t","e","s","_","p","a","g","e","_">>
W_cat_ == <<"_","c","a","t","_">>
W_search_results_page_ == <<"s","e","a","r","c","h","_","r","e","s","u","l","t","s","_",
                            "p","a","g","e","_">>
S_All == <<"A","l","l">>

\* total_pages, current_page and notes_on_page of send_notes_page_handler,
\* with the total rounded down
notes_page_floor(all_notes, page) ==
    LET total_pages == Len(all_notes) \div NOTES_PER_PAGE
        current_page == Max(0, Min(page, total_pages - 1))
        start_index == current_page * NOTES_PER_PAGE
    IN  [total_pages |-> total_pages, current_page |-> current_page,
         notes_on_page |-> py_slice(all_notes, start_index,
                                    start_index + NOTES_PER_PAGE)]

\* total_pages, current_page and notes_on_page of send_notes_page_handler
notes_page(all_notes, page) ==
    LET total_pages == (Len(all_notes) + NOTES_PER_PAGE - 1) \div NOTES_PER_PAGE
        current_page == Max(0, Min(page, total_pages - 1))
        start_index == current_page * NOTES_PER_PAGE
        end_index == start_index + NOTES_PER_PAGE
    IN  [total_pages |-> total_pages, current_page |-> current_page,
         notes_on_page |-> py_slice(all_notes, start_index, end_index)]

\* the same of send_search_results_page_handler
search_page(results, page) ==
    LET total_pages == (Len(results) + NOTES_PER_PAGE - 1) \div NOTES_PER_PAGE
        current_page == Max(0, Min(page, total_pages - 1))
        start_index == current_page * NOTES_PER_PAGE
        end_index == start_index + NOTES_PER_PAGE
    IN  [total_pages |-> total_pages, current_page |-> current_page,
         notes_on_page |-> py_slice(results, start_index, end_index)]

\* the message send_notes_page_handler sends; category is <<>> for None and
\* <<c>> for the str c
send_notes_page_handler(ud, u, page, category) ==
    LET sorted_notes == get_user_notes(ud, u)
        filtering == category # <<>> /\ category[1] # <<>> /\ category[1] # S_All
        all_notes == IF filtering
                     THEN SelectSeq(sorted_notes,
                                    LAMBDA n : n.category = category[1])
                     ELSE sorted_notes
        pg == notes_page(all_notes, page)
        suffix == IF category # <<>> /\ category[1] # <<>>
                  THEN W_cat_ \o category[1] ELSE <<>>
        previous == IF pg.current_page > 0
                    THEN <<W_view_notes_page_ \o int_str(pg.current_page - 1)
                           \o suffix>>
                    ELSE <<>>
        next == IF pg.current_page < pg.total_pages - 1
                THEN <<W_view_notes_page_ \o int_str(pg.current_page + 1)
                       \o suffix>>
                ELSE <<>>
    IN  IF all_notes = <<>> THEN [kind |-> "no_notes"]
        ELSE [kind |-> "notes_page", all |-> all_notes,
              total_pages |-> pg.total_pages, current_page |-> pg.current_page,
              notes_on_page |-> pg.notes_on_page,
              pagination_buttons |-> previous \o next]

\* the message send_search_results_page_handler sends for the session
\* dict user_data_ctx (context.user_data)
send_search_results_page_handler(user_data_ctx, page) ==
    LET results == IF Has(user_data_ctx, "last_search_results")
                   THEN user_data_ctx["last_search_results"] ELSE <<>>
        pg == search_page(results, page)
        previous == IF pg.current_page > 0
                    THEN <<W_search_results_page_ \o int_str(pg.current_page - 1)>>
                    ELSE <<>>
        next == IF pg.current_page < pg.total_pages - 1
                THEN <<W_search_results_page_ \o int_str(pg.current_page + 1)>>
                ELSE <<>>
    IN  IF results = <<>> THEN [kind |-> "no_results"]
        ELSE [kind |-> "search_page", all |-> results,
              total_pages |-> pg.total_pages, current_page |-> pg.current_page,
              notes_on_page |-> pg.notes_on_page,
              pagination_buttons |-> previous \o next]

\* context.user_data as handler() sets it up for a request of user u
request_user_data(ud, u) ==
    LET k == str_uid(u)
        d == IF Has(ud.settings, k) THEN ud.settings[k] ELSE EmptyDict
        d1 == Put(d, "last_search_results",
                  IF Has(d, "last_search_results")
                  THEN d["last_search_results"] ELSE <<>>)
    IN  Put(d1, "last_search_query",
            IF Has(d, "last_search_query") THEN d["last_search_query"] ELSE <<>>)

---------------------------------------------------------------------------
(* Inputs *)

S_Home == <<"H","o","m","e"," ","O","f","f","i","c","e">>
S_desk == <<"d","e","s","k">>
S_General == <<"G","e","n","e","r","a","l">>
S_Tea == <<"T","e","a">>
S_milk == <<"m","i","l","k">>
S_Quick == <<"Q","u","i","c","k"," ","N","o","t","e","s">>
S_home == <<"h","o","m","e">>
S_MIL == <<"M","I","L">>
S_qui == <<"q","u","i">>
S_zz == <<"z","z">>

NoteTexts == {[title |-> S_Home, content |-> S_desk, category |-> S_General],
              [title |-> S_Tea, content |-> S_milk, category |-> S_Quick]}
StoreText == [title |-> S_Home, content |-> S_desk, category |-> S_General]
Categories == {<<>>, S_General}
Queries == {S_home, S_MIL, S_qui, S_zz, <<>>}

---------------------------------------------------------------------------
(* More of Python str *)

Whitespace == {" ", "\n", "\t"}

RECURSIVE str_lstrip(_)
str_lstrip(s) ==
    IF s # <<>> /\ s[1] \in Whitespace THEN str_lstrip(Tail(s)) ELSE s

RECURSIVE str_rstrip(_)
str_rstrip(s) ==
    IF s # <<>> /\ s[Len(s)] \in Whitespace
    THEN str_rstrip(SubSeq(s, 1, Len(s) - 1)) ELSE s

\* s.strip()
str_strip(s) == str_rstrip(str_lstrip(s))

\* s.startswith(p)
str_startswith(s, p) == Len(s) >= Len(p) /\ SubSeq(s, 1, Len(p)) = p

\* the place of the first ch in s, 0 when there is none
str_find(s, ch) ==
    IF \E i \in 1..Len(s) : s[i] = ch
    THEN CHOOSE i \in 1..Len(s) : s[i] = ch /\ \A j \in 1..(i - 1) : s[j] # ch
    ELSE 0

\* s.split(ch)
RECURSIVE str_split(_, _)
str_split(s, ch) ==
    LET i == str_find(s, ch)
    IN  IF i = 0 THEN <<s>>
        ELSE <<SubSeq(s, 1, i - 1)>> \o str_split(SubSeq(s, i + 1, Len(s)), ch)

\* s.split(ch, 1)[1], for an s that holds ch
str_after_first(s, ch) == SubSeq(s, str_find(s, ch) + 1, Len(s))

\* ch.join(parts)
RECURSIVE str_join(_, _)
str_join(ch, parts) ==
    IF parts = <<>> THEN <<>>
    ELSE IF Len(parts) = 1 THEN parts[1]
    ELSE parts[1] \o <<ch>> \o str_join(ch, Tail(parts))

DigitSet == {Digits[i] : i \in 1..10}
DigitVal(ch) == CHOOSE v \in 0..9 : Digits[v + 1] = ch

RECURSIVE digits_val(_)
digits_val(s) ==
    IF s = <<>> THEN 0
    ELSE digits_val(SubSeq(s, 1, Len(s) - 1)) * 10 + DigitVal(s[Len(s)])

\* int(s): [ok |-> FALSE] stands for ValueError
int_parse(s) ==
    LET t == str_strip(s)
        signed == t # <<>> /\ t[1] \in {"-", "+"}
        ds == IF signed THEN Tail(t) ELSE t
    IN  IF ds # <<>> /\ \A i \in 1..Len(ds) : ds[i] \in DigitSet
        THEN [ok |-> TRUE,
              val |-> IF signed /\ t[1] = "-" THEN 0 - digits_val(ds)
                      ELSE digits_val(ds)]
        ELSE [ok |-> FALSE, val |-> 0]

\* the order of the characters by code point
CharOrder == <<"\t", "\n", " ", "#", "'", ",", "-", ".">> \o Digits \o <<":">>
             \o UpperChars \o <<"_">> \o LowerChars
ord(c) == CHOOSE i \in 1..Len(CharOrder) : CharOrder[i] = c

\* a < b for two str
RECURSIVE str_less(_, _)
str_less(a, b) ==
    IF b = <<>> THEN FALSE
    ELSE IF a = <<>> THEN TRUE
    ELSE IF a[1] = b[1] THEN str_less(Tail(a), Tail(b))
    ELSE ord(a[1]) < ord(b[1])

\* sorted(list(set_of_str))
RECURSIVE sorted_strs(_)
sorted_strs(S) ==
    IF S = {} THEN <<>>
    ELSE LET m == CHOOSE x \in S : \A y \in S \ {x} : str_less(x, y)
         IN  <<m>> \o sorted_strs(S \ {m})

---------------------------------------------------------------------------
(* The handlers.  A request in progress is c: the user u, user_data as ud,  *)
(* the session dict context.user_data as ctx, and aliased, which says that  *)
(* ctx is the very dict user_data['settings'][str(u)], so that a write to   *)
(* either is a write to both.  A handler returns the request with its       *)
(* reply and with what add_user_note did if it was called.                  *)

SetCtx(c, d) ==
    [c EXCEPT !.ctx = d,
              !.ud = IF c.aliased
                     THEN [c.ud EXCEPT !.settings = Put(@, str_uid(c.u), d)]
                     ELSE c.ud]

SetUd(c, ud2) ==
    [c EXCEPT !.ud = ud2,
              !.ctx = IF c.aliased THEN ud2.settings[str_uid(c.u)] ELSE c.ctx]

Out(c, reply) == [c |-> c, reply |-> reply, added |-> FALSE, raised |-> "", id |-> 0]

\* d.get(k) is true
IsSet(d, k) == Has(d, k) /\ d[k] = TRUE

get_user_categories(ud, u) ==
    IF ~Has(ud.notes, str_uid(u)) THEN <<>>
    ELSE sorted_strs({ud.notes[str_uid(u)][i].category :
                         i \in 1..Len(ud.notes[str_uid(u)])})

\* new_note_handler that leaves the other two modes as they are
new_note_handler_no_pop(c) ==
    Out(SetCtx(c, Put(c.ctx, "awaiting_note", TRUE)), [kind |-> "ask_note"])

new_note_handler(c) ==
    Out(SetCtx(c, Pop(Pop(Put(c.ctx, "awaiting_note", TRUE), "awaiting_search"),
                      "awaiting_category_for_note_id")),
        [kind |-> "ask_note"])

search_command_handler(c) ==
    Out(SetCtx(c, Pop(Pop(Put(c.ctx, "awaiting_search", TRUE), "awaiting_note"),
                      "awaiting_category_for_note_id")),
        [kind |-> "ask_query"])

categories_command_handler(c) ==
    LET categories == get_user_categories(c.ud, c.u)
    IN  IF categories = <<>> THEN Out(c, [kind |-> "no_categories"])
        ELSE Out(c, [kind |-> "categories",
                     buttons |-> [i \in 1..Len(categories) |->
                         W_view_notes_page_ \o <<"0">> \o W_cat_ \o categories[i]],
                     counts |-> [i \in 1..Len(categories) |->
                         Len(SelectSeq(get_user_notes(c.ud, c.u),
                                       LAMBDA n : n.category = categories[i]))]])

W_title == <<"t","i","t","l","e",":">>
W_category == <<"c","a","t","e","g","o","r","y",":">>
W_content == <<"c","o","n","t","e","n","t",":">>
W_dots == <<".",".",".">>
S_Untitled == <<"U","n","t","i","t","l","e","d"," ","N","o","t","e">>
S_UntitledQuick == <<"U","n","t","i","t","l","e","d"," ","Q","u","i","c","k"," ",
                     "N","o","t","e">>

\* one turn of the loop over the lines; title is <<>> for None, <<t>> for t
parse_line(st, line) ==
    LET line_lower == str_lower(line)
    IN  IF str_startswith(line_lower, W_title)
        THEN [st EXCEPT !.title = <<str_strip(str_after_first(line, ":"))>>]
        ELSE IF str_startswith(line_lower, W_category)
        THEN [st EXCEPT !.category = str_strip(str_after_first(line, ":"))]
        ELSE IF str_startswith(line_lower, W_content)
        THEN [st EXCEPT !.content = str_strip(str_after_first(line, ":")),
                        !.is_content_explicitly_set = TRUE,
                        !.parsed_content_lines = <<>>]
        ELSE IF ~st.is_content_explicitly_set
        THEN [st EXCEPT !.parsed_content_lines = Append(@, line)]
        ELSE st

RECURSIVE parse_lines(_, _)
parse_lines(st, lines) ==
    IF lines = <<>> THEN st
    ELSE parse_lines(parse_line(st, lines[1]), Tail(lines))

\* note_fields cutting a long content to 50 characters without the '...'
note_fields_no_dots(text, st) ==
    LET joined == str_strip(str_join("\n", st.parsed_content_lines))
        content == IF st.is_content_explicitly_set THEN st.content
                   ELSE IF joined = <<>> THEN text ELSE joined
        derived == IF Len(content) > 50
                   THEN py_slice(content, 0, 50) ELSE content
        title == IF st.title # <<>> /\ st.title[1] # <<>> THEN st.title[1]
                 ELSE IF derived = <<>> THEN S_Untitled ELSE derived
    IN  [title |-> title, category |-> st.category, content |-> content]

\* title, category and content of the note, st being the loop's outcome
note_fields(text, st) ==
    LET joined == str_strip(str_join("\n", st.parsed_content_lines))
        content == IF st.is_content_explicitly_set THEN st.content
                   ELSE IF joined = <<>> THEN text ELSE joined
        derived == IF Len(content) > 50
                   THEN py_slice(content, 0, 50) \o W_dots ELSE content
        title == IF st.title # <<>> /\ st.title[1] # <<>> THEN st.title[1]
                 ELSE IF derived = <<>> THEN S_Untitled ELSE derived
    IN  [title |-> title, category |-> st.category, content |-> content]

\* title, category and content of the note made from text while awaiting_note
parse_note_text(text) ==
    note_fields(text, parse_lines([title |-> <<>>, category |-> S_General,
                                   content |-> text, parsed_content_lines |-> <<>>,
                                   is_content_explicitly_set |-> FALSE],
                                  str_split(text, "\n")))

\* the handler's outcome after its call of add_user_note gave r: a KeyError
\* ends the handler
Added(c, r) ==
    [c |-> SetUd(c, r.ud),
     reply |-> IF r.raised = "" THEN [kind |-> "saved", note_id |-> r.id]
               ELSE [kind |-> "none"],
     added |-> TRUE, raised |-> r.raised, id |-> r.id]

AddOut(c, title, content, category, now, obj) ==
    Added(c, add_user_note(c.ud, c.u, title, content, category, now, obj))

\* the branch of handle_message_handler that sets a note's category, r being
\* what update_user_note_category gives after the pop
set_category(c1, note_id, new_category, r) ==
    IF get_user_note(c1.ud, c1.u, note_id) # <<>> /\ r.ok
    THEN Out(SetUd(c1, r.ud), [kind |-> "category_updated", note_id |-> note_id])
    ELSE Out(c1, [kind |-> "category_failed"])

update_category(c1, note_id, new_category) ==
    set_category(c1, note_id, new_category,
                 update_user_note_category(c1.ud, c1.u, note_id, new_category))

\* the branch of handle_message_handler that makes the detailed note p
save_note(c1, p, now, obj) == AddOut(c1, p.title, p.content, p.category, now, obj)

\* the branch of handle_message_handler that searches
search_reply(c2) == Out(c2, send_search_results_page_handler(c2.ctx, 0))

run_search(c1, text) ==
    search_reply(SetCtx(c1, Put(Put(c1.ctx, "last_search_results",
                                    search_user_notes(c1.ud, c1.u, text)),
                                "last_search_query", text)))

\* the branch of handle_message_handler that makes a quick note
quick_note(c, text, title, now, obj) ==
    AddOut(c, IF title = <<>> THEN S_UntitledQuick ELSE title, text, S_Quick,
           now, obj)

handle_message_handler(c, text, now, obj) ==
    IF Has(c.ctx, "awaiting_category_for_note_id")
    THEN update_category(SetCtx(c, Pop(c.ctx, "awaiting_category_for_note_id")),
                         c.ctx["awaiting_category_for_note_id"], str_strip(text))
    ELSE IF IsSet(c.ctx, "awaiting_note")
    THEN save_note(SetCtx(c, Put(c.ctx, "awaiting_note", FALSE)),
                   parse_note_text(text), now, obj)
    ELSE IF IsSet(c.ctx, "awaiting_search")
    THEN run_search(SetCtx(c, Put(c.ctx, "awaiting_search", FALSE)), text)
    ELSE quick_note(c, text,
                    IF Len(text) > 50 THEN py_slice(text, 0, 50) \o W_dots
                    ELSE text, now, obj)

W_view_note_ == <<"v","i","e","w","_","n","o","t","e","_">>
W_edit_category_ == <<"e","d","i","t","_","c","a","t","e","g","o","r","y","_">>
W_delete_note_ == <<"d","e","l","e","t","e","_","n","o","t","e","_">>
D_new_note == <<"n","e","w","_","n","o","t","e">>
D_search_notes == <<"s","e","a","r","c","h","_","n","o","t","e","s">>
D_view_categories == <<"v","i","e","w","_","c","a","t","e","g","o","r","i","e","s">>
D_stats == <<"s","t","a","t","s">>
D_help == <<"h","e","l","p">>
D_back_to_main == <<"b","a","c","k","_","t","o","_","m","a","i","n">>
W_cat == <<"c","a","t">>

\* the reply of stats_command_handler and of the stats button
stats_reply(c) ==
    [kind |-> "stats", total_notes |-> Len(get_user_notes(c.ud, c.u)),
     total_categories |-> Len(get_user_categories(c.ud, c.u))]

\* the view_notes_page_ branch, page being int(parts[3])
view_notes_page(c0, parts, page) ==
    IF ~page.ok \/ (Len(parts) = 5 /\ parts[5] = W_cat)
    THEN Out(c0, [kind |-> "invalid_page"])
    ELSE Out(c0, send_notes_page_handler(c0.ud, c0.u, page.val,
                     IF Len(parts) > 4 /\ parts[5] = W_cat
                     THEN <<parts[6]>> ELSE <<>>))

\* the delete_note_ branch, r being what delete_user_note gave
delete_reply(c0, note_id, r) ==
    IF r.ok THEN Out(SetUd(c0, r.ud), [kind |-> "deleted", note_id |-> note_id])
    ELSE Out(c0, [kind |-> "not_found"])

\* the branches of button_handler_func: c0 is the request after the three
\* pops, parts is data.split('_') and last is int(parts[-1])
button_branch(c0, data, parts, last) ==
        IF data = D_new_note THEN new_note_handler(c0)
        ELSE IF str_startswith(data, W_view_notes_page_)
        THEN view_notes_page(c0, parts, int_parse(parts[4]))
        ELSE IF data = D_search_notes
        THEN Out(SetCtx(c0, Put(c0.ctx, "awaiting_search", TRUE)),
                 [kind |-> "ask_query"])
        ELSE IF str_startswith(data, W_search_results_page_)
        THEN IF ~last.ok THEN Out(c0, [kind |-> "invalid_page"])
             ELSE IF ~Has(c0.ctx, "last_search_query")
                     \/ c0.ctx["last_search_query"] = <<>>
             THEN Out(c0, [kind |-> "no_active_query"])
             ELSE Out(c0, send_search_results_page_handler(c0.ctx, last.val))
        ELSE IF data = D_view_categories THEN categories_command_handler(c0)
        ELSE IF str_startswith(data, W_view_note_)
        THEN IF ~last.ok THEN Out(c0, [kind |-> "invalid_id"])
             ELSE IF get_user_note(c0.ud, c0.u, last.val) # <<>>
             THEN Out(c0, [kind |-> "note", note_id |-> last.val,
                           note |-> get_user_note(c0.ud, c0.u, last.val)[1]])
             ELSE Out(c0, [kind |-> "not_found"])
        ELSE IF str_startswith(data, W_edit_category_)
        THEN IF ~last.ok THEN Out(c0, [kind |-> "invalid_id"])
             ELSE IF get_user_note(c0.ud, c0.u, last.val) # <<>>
             THEN Out(SetCtx(c0, Put(c0.ctx, "awaiting_category_for_note_id",
                                     last.val)),
                      [kind |-> "ask_category", note_id |-> last.val])
             ELSE Out(c0, [kind |-> "not_found"])
        ELSE IF str_startswith(data, W_delete_note_)
        THEN IF ~last.ok THEN Out(c0, [kind |-> "invalid_id"])
             ELSE delete_reply(c0, last.val,
                               delete_user_note(c0.ud, c0.u, last.val))
        ELSE IF data = D_stats THEN Out(c0, stats_reply(c0))
        ELSE IF data = D_help THEN Out(c0, [kind |-> "help"])
        ELSE IF data = D_back_to_main THEN Out(c0, [kind |-> "welcome_back"])
        ELSE Out(c0, [kind |-> "none"])

last_part(parts) == parts[Len(parts)]

split_button(c0, data, parts) ==
    button_branch(c0, data, parts, int_parse(last_part(parts)))

button_handler_func(c, data) ==
    split_button(SetCtx(c, Pop(Pop(Pop(c.ctx, "awaiting_note"), "awaiting_search"),
                               "awaiting_category_for_note_id")),
                 data, str_split(data, "_"))

\* /clear, r being what clear_command_handler gave
clear_reply(c, r) ==
    Out(SetUd(c, r.ud), [kind |-> IF r.ok THEN "cleared" ELSE "nothing_to_clear"])

\* the command handlers registered with the application
command_handler(c, name) ==
    IF name = "new" THEN new_note_handler(c)
    ELSE IF name = "mynotes"
    THEN Out(c, send_notes_page_handler(c.ud, c.u, 0, <<>>))
    ELSE IF name = "search" THEN search_command_handler(c)
    ELSE IF name = "categories" THEN categories_command_handler(c)
    ELSE IF name = "stats" THEN Out(c, stats_reply(c))
    ELSE IF name = "clear"
    THEN clear_reply(c, clear_command_handler(c.ud, c.u))
    ELSE IF name = "help" THEN Out(c, [kind |-> "help"])
    ELSE Out(c, [kind |-> "welcome"])

\* the request as handler() sets it up for an update of user u: the session
\* dict is user_data['settings'][str(u)] itself when there is one, and a
\* new dict otherwise
make_context(ud, u, ctx) ==
    [u |-> u, ctx |-> ctx, aliased |-> Has(ud.settings, str_uid(u)),
     ud |-> IF Has(ud.settings, str_uid(u))
            THEN [ud EXCEPT !.settings = Put(@, str_uid(u), ctx)] ELSE ud]

request_context(ud, u) == make_context(ud, u, request_user_data(ud, u))

\* app.process_update: the handler registered for the update runs
process_update(c, upd, now, obj) ==
    IF upd.kind = "command" THEN command_handler(c, upd.arg)
    ELSE IF upd.kind = "callback_query" THEN button_handler_func(c, upd.arg)
    ELSE handle_message_handler(c, upd.arg, now, obj)

\* the session dict stored back into user_data['settings'] after the update
write_back(r, u) ==
    [ud |-> [r.c.ud EXCEPT !.settings = Put(@, str_uid(u), r.c.ctx)],
     reply |-> r.reply, added |-> r.added, raised |-> r.raised, id |-> r.id]

\* handler() for a POST of the update upd: user_data afterwards, with what
\* the update's handler did
handler(ud, upd, u, now, obj) ==
    write_back(process_update(request_context(ud, u), upd, now, obj), u)

---------------------------------------------------------------------------
(* The calls *)

\* no request is in progress
Tasks == {1, 2}
NoTasks == [t \in Tasks |-> [pc |-> "idle"]]

\* the scheduler at start: the clock at 0 and no timer
NoReminders == [now |-> 0, timers |-> {}]

Ret0 == [op |-> "init", u |-> 0, id |-> 0, ok |-> FALSE, found |-> <<>>,
         list |-> <<>>, q |-> <<>>, raised |-> "",
         page |-> 0, cat |-> <<>>, reply |-> [kind |-> "none"],
         update |-> <<>>, added |-> FALSE]

Init ==
    /\ user_data = [notes |-> EmptyDict, settings |-> EmptyDict]
    /\ nAdds = 0
    /\ ret = Ret0
    /\ issued = [u \in Users |-> <<>>]
    /\ tasks = NoTasks
    /\ sched = NoReminders

AddNote(u, tx, now) ==
    /\ UNCHANGED <<tasks, sched>>
    /\ nAdds < MaxAdds
    /\ LET r == add_user_note(user_data, u, tx.title, tx.content, tx.category,
                              now, nAdds + 1)
       IN  /\ user_data' = r.ud
           /\ ret' = [Ret0 EXCEPT !.op = "add", !.u = u, !.id = r.id,
                                  !.raised = r.raised]
           /\ issued' = IF r.raised = ""
                        THEN [issued EXCEPT ![u] = Append(@, r.id)]
                        ELSE issued
    /\ nAdds' = nAdds + 1

DeleteNote(u, id) ==
    /\ UNCHANGED <<tasks, sched>>
    /\ LET r == delete_user_note(user_data, u, id)
       IN  /\ user_data' = r.ud
           /\ ret' = [Ret0 EXCEPT !.op = "delete", !.u = u, !.id = id,
                                  !.ok = r.ok]
    /\ UNCHANGED <<nAdds, issued>>

GetNote(u, id) ==
    /\ UNCHANGED <<tasks, sched>>
    /\ ret' = [Ret0 EXCEPT !.op = "get", !.u = u, !.id = id,
                           !.found = get_user_note(user_data, u, id)]
    /\ UNCHANGED <<user_data, nAdds, issued>>

UpdateCategory(u, id, cat) ==
    /\ UNCHANGED <<tasks, sched>>
    /\ LET r == update_user_note_category(user_data, u, id, cat)
       IN  /\ user_data' = r.ud
           /\ ret' = [Ret0 EXCEPT !.op = "update", !.u = u, !.id = id,
                                  !.ok = r.ok, !.q = cat]
    /\ UNCHANGED <<nAdds, issued>>

ClearAll(u) ==
    /\ UNCHANGED <<tasks, sched>>
    /\ LET r == clear_command_handler(user_data, u)
       IN  /\ user_data' = r.ud
           /\ ret' = [Ret0 EXCEPT !.op = "clear", !.u = u, !.ok = r.ok]
    /\ issued' = [issued EXCEPT ![u] = <<>>]
    /\ UNCHANGED nAdds

ListNotes(u) ==
    /\ UNCHANGED <<tasks, sched>>
    /\ ret' = [Ret0 EXCEPT !.op = "list", !.u = u,
                           !.list = get_user_notes(user_data, u)]
    /\ UNCHANGED <<user_data, nAdds, issued>>

Search(u, q) ==
    /\ UNCHANGED <<tasks, sched>>
    /\ ret' = [Ret0 EXCEPT !.op = "search", !.u = u, !.q = q,
                           !.list = search_user_notes(user_data, u, q)]
    /\ UNCHANGED <<user_data, nAdds, issued>>

\* The store calls, two users, the clock ticking once per note
Next ==
    \/ \E u \in Users : AddNote(u, StoreText, nAdds)
    \/ \E u \in Users, id \in Ids : DeleteNote(u, id)
    \/ \E u \in Users, id \in Ids : GetNote(u, id)
    \/ \E u \in Users, id \in Ids, cat \in Categories : UpdateCategory(u, id, cat)
    \/ \E u \in Users : ClearAll(u)

Spec == Init /\ [][Next]_vars

\* The queries over one user's notes, created at any times (the wall clock
\* may repeat a value or step back)
NextQuery ==
    \/ \E tx \in NoteTexts, now \in Times : AddNote(1, tx, now)
    \/ \E id \in Ids : DeleteNote(1, id)
    \/ \E u \in Users : ListNotes(u)
    \/ \E u \in Users, q \in Queries : Search(u, q)

SpecQuery == Init /\ [][NextQuery]_vars

ListCategories(u) ==
    /\ UNCHANGED <<tasks, sched>>
    /\ ret' = [Ret0 EXCEPT !.op = "categories", !.u = u,
                           !.list = get_user_categories(user_data, u)]
    /\ UNCHANGED <<user_data, nAdds, issued>>

\* The store calls and the queries, two users
NextUsers ==
    \/ \E u \in Users : AddNote(u, StoreText, nAdds)
    \/ \E u \in Users, id \in Ids : DeleteNote(u, id)
    \/ \E u \in Users, id \in Ids : GetNote(u, id)
    \/ \E u \in Users, id \in Ids : UpdateCategory(u, id, S_Tea)
    \/ \E u \in Users : ClearAll(u)
    \/ \E u \in Users : ListNotes(u)
    \/ \E u \in Users : Search(u, S_desk)
    \/ \E u \in Users : ListCategories(u)

SpecUsers == Init /\ [][NextUsers]_vars

---------------------------------------------------------------------------
(* The webhook: one user's updates, handled one at a time *)

S_detail == <<"T","i","t","l","e",":"," ","T","e","a","\n",
              "c","a","t","e","g","o","r","y",":","H","o","m","e","\n",
              "m","i","l","k">>
Texts == {S_milk, S_detail}
Commands == {"start", "new", "mynotes", "search", "categories", "stats",
             "clear", "help"}
Buttons == {D_new_note, D_search_notes, D_view_categories, D_stats, D_help,
            D_back_to_main,
            W_view_notes_page_ \o <<"0">>,
            W_view_notes_page_ \o <<"0">> \o W_cat_ \o S_Quick,
            W_view_notes_page_ \o <<"0", "_">> \o W_cat,
            W_view_notes_page_ \o <<"x">>,
            W_search_results_page_ \o <<"0">>,
            W_view_note_ \o <<"1">>, W_edit_category_ \o <<"1">>,
            W_delete_note_ \o <<"1">>}

\* a POST to the webhook with an update of user u
Handled(u, upd, r, stored) ==
    /\ UNCHANGED <<tasks, sched>>
    /\ stored => nAdds < MaxAdds
    /\ user_data' = r.ud
    /\ nAdds' = IF stored THEN nAdds + 1 ELSE nAdds
    /\ issued' = IF stored THEN [issued EXCEPT ![u] = Append(@, r.id)]
                 ELSE IF r.reply.kind = "cleared"
                 THEN [issued EXCEPT ![u] = <<>>]
                 ELSE issued
    /\ ret' = [Ret0 EXCEPT !.op = "webhook", !.u = u, !.update = <<upd>>,
                           !.added = r.added, !.raised = r.raised,
                           !.id = r.id, !.reply = r.reply]

Stored(r) == r.added /\ r.raised = ""

Posted(u, upd, r) == Handled(u, upd, r, Stored(r))

Webhook(u, upd) == Posted(u, upd, handler(user_data, upd, u, nAdds, nAdds + 1))

NextWebhook ==
    \/ \E t \in Texts : Webhook(1, [kind |-> "message", arg |-> t])
    \/ \E n \in Commands : Webhook(1, [kind |-> "command", arg |-> n])
    \/ \E d \in Buttons : Webhook(1, [kind |-> "callback_query", arg |-> d])

SpecWebhook == Init /\ [][NextWebhook]_vars

---------------------------------------------------------------------------
(* The detailed creation flow through the webhook: /new, then a text *)

D_full == <<"T","i","t","l","e",":"," ","T","e","a","\n",
            "C","a","t","e","g","o","r","y",":"," ","H","o","m","e","\n",
            "C","o","n","t","e","n","t",":"," ","m","i","l","k">>
D_stray == <<"d","e","s","k","\n",
             "C","O","N","T","E","N","T",":"," ","m","i","l","k"," ","\n",
             "z","z">>
D_lines == <<"m","i","l","k","\n","t","i","t","l","e",":","T","e","a","\n",
             "d","e","s","k">>
D_title_only == <<"T","i","t","l","e",":"," ","T","e","a">>
D_no_content == <<"C","o","n","t","e","n","t",":">>
D_empty_title == <<"T","i","t","l","e",":"," ","\n","m","i","l","k">>
D_50 == [i \in 1..50 |-> "a"]
D_51 == [i \in 1..51 |-> "a"]
DetailTexts == {D_full, D_stray, D_lines, D_title_only, D_no_content,
                D_empty_title, D_50, D_51}

NextDetailed ==
    \/ \E t \in DetailTexts : Webhook(1, [kind |-> "message", arg |-> t])
    \/ \E n \in {"new", "clear"} : Webhook(1, [kind |-> "command", arg |-> n])

SpecDetailed == Init /\ [][NextDetailed]_vars

---------------------------------------------------------------------------
(* The reminder scheduler (spec 4.3): timers are one-shot, a reminder is   *)
(* [u, note_id, fire_at]; a call returns the scheduler with the            *)
(* notifications [u, note_id] it made through the notifier                 *)

MaxTimers == 2

\* schedule that registers a timer whatever the delay
schedule_timer_always(sc, u, note_id, fire_at) ==
    [sc |-> [sc EXCEPT !.timers = @ \cup {[u |-> u, note_id |-> note_id,
                                           fire_at |-> fire_at]}],
     notified |-> <<>>]

\* schedule(userId, noteId, fireAt): delay = fireAt - now; with delay <= 0
\* the notifier is invoked in the call, else a one-shot timer is registered
schedule(sc, u, note_id, fire_at) ==
    IF fire_at - sc.now <= 0
    THEN [sc |-> sc, notified |-> <<[u |-> u, note_id |-> note_id]>>]
    ELSE [sc |-> [sc EXCEPT !.timers = @ \cup {[u |-> u, note_id |-> note_id,
                                                fire_at |-> fire_at]}],
          notified |-> <<>>]

\* a timer expires: the note is looked up, and notified of if it is there
timer_fires(sc, ud, tm) ==
    [sc |-> [sc EXCEPT !.timers = @ \ {tm}],
     notified |-> IF get_user_note(ud, tm.u, tm.note_id) # <<>>
                  THEN <<[u |-> tm.u, note_id |-> tm.note_id]>> ELSE <<>>]

Schedule(u, note_id, fire_at) ==
    /\ Cardinality(sched.timers) < MaxTimers
    /\ sched' = schedule(sched, u, note_id, fire_at).sc
    /\ ret' = [op |-> "schedule", u |-> u, id |-> note_id, fire_at |-> fire_at,
               notified |-> schedule(sched, u, note_id, fire_at).notified]
    /\ UNCHANGED <<user_data, nAdds, issued, tasks>>

TimerFires(tm) ==
    /\ tm.fire_at <= sched.now
    /\ sched' = timer_fires(sched, user_data, tm).sc
    /\ ret' = [op |-> "timer", u |-> tm.u, id |-> tm.note_id,
               fire_at |-> tm.fire_at,
               notified |-> timer_fires(sched, user_data, tm).notified]
    /\ UNCHANGED <<user_data, nAdds, issued, tasks>>

Tick ==
    /\ sched.now < MaxTime
    /\ sched' = [sched EXCEPT !.now = @ + 1]
    /\ ret' = [op |-> "tick"]
    /\ UNCHANGED <<user_data, nAdds, issued, tasks>>

NextReminder ==
    \/ nAdds < MaxTimers /\ AddNote(1, StoreText, nAdds)
    \/ \E id \in 1..MaxTimers : DeleteNote(1, id)
    \/ \E id \in 1..MaxTimers, at \in Times : Schedule(1, id, at)
    \/ \E tm \in sched.timers : TimerFires(tm)
    \/ Tick

SpecReminder == Init /\ [][NextReminder]_vars

---------------------------------------------------------------------------
(* Buttons: the user presses a button of the message sent last *)

S_to_do == <<"t","o","_","d","o">>

\* the callback data of the category and Previous/Next buttons of a message
EmittedButtons(reply) ==
    IF reply.kind = "categories"
    THEN {reply.buttons[i] : i \in 1..Len(reply.buttons)}
    ELSE IF reply.kind \in {"notes_page", "search_page"}
    THEN {reply.pagination_buttons[i] : i \in 1..Len(reply.pagination_buttons)}
    ELSE {}

NextCallback ==
    \/ \E t \in {S_milk, S_to_do} : Webhook(1, [kind |-> "message", arg |-> t])
    \/ \E n \in {"categories", "mynotes", "clear"} :
           Webhook(1, [kind |-> "command", arg |-> n])
    \/ Webhook(1, [kind |-> "callback_query", arg |-> W_edit_category_ \o <<"1">>])
    \/ /\ ret.op = "webhook"
       /\ \E d \in EmittedButtons(ret.reply) :
              Webhook(1, [kind |-> "callback_query", arg |-> d])

SpecCallback == Init /\ [][NextCallback]_vars

---------------------------------------------------------------------------
(* Two requests of user 1 in progress at once.  A request stops at its     *)
(* awaits: after handler() made its session dict (app.process_update is    *)
(* awaited next), and at the reply that the update's handler awaits after  *)
(* its writes.  tasks[t].aliased says that the session dict of t is the    *)
(* dict user_data['settings']['1']; tasks[t].ctx holds it otherwise.       *)

\* the session dict of the request t
CtxOf(t) ==
    IF tasks[t].aliased THEN user_data.settings[str_uid(1)] ELSE tasks[t].ctx

\* lines 749-751 for the request t
Receive(t, upd) ==
    /\ tasks[t].pc = "idle"
    /\ user_data' = request_context(user_data, 1).ud
    /\ tasks' = [tasks EXCEPT ![t] =
           [pc |-> "dispatch", upd |-> upd,
            aliased |-> request_context(user_data, 1).aliased,
            ctx |-> IF request_context(user_data, 1).aliased THEN EmptyDict
                    ELSE request_context(user_data, 1).ctx]]
    /\ ret' = [op |-> "receive", task |-> t]
    /\ UNCHANGED <<nAdds, issued, sched>>

\* the outcome r of the handler of the request t
Ran(t, r, stored) ==
    /\ stored => nAdds < MaxAdds
    /\ user_data' = r.c.ud
    /\ tasks' = [tasks EXCEPT ![t].pc = "reply",
                              ![t].ctx = IF tasks[t].aliased THEN EmptyDict
                                         ELSE r.c.ctx]
    /\ nAdds' = IF stored THEN nAdds + 1 ELSE nAdds
    /\ ret' = [op |-> "run", task |-> t, added |-> r.added,
               raised |-> r.raised, id |-> r.id]
    /\ UNCHANGED <<issued, sched>>

\* process_update for the request t, up to the reply's await
Run(t) ==
    /\ tasks[t].pc = "dispatch"
    /\ Ran(t, process_update([u |-> 1, ud |-> user_data, ctx |-> CtxOf(t),
                              aliased |-> tasks[t].aliased],
                             tasks[t].upd, nAdds, nAdds + 1),
           Stored(process_update([u |-> 1, ud |-> user_data, ctx |-> CtxOf(t),
                                  aliased |-> tasks[t].aliased],
                                 tasks[t].upd, nAdds, nAdds + 1)))

\* line 773 for the request t: the requests whose session dict was the
\* dict replaced keep that dict
Return(t) ==
    /\ tasks[t].pc = "reply"
    /\ user_data' = [user_data EXCEPT !.settings = Put(@, str_uid(1), CtxOf(t))]
    /\ tasks' = [t2 \in Tasks |->
           IF t2 = t THEN [pc |-> "idle"]
           ELSE IF tasks[t2].pc # "idle" /\ tasks[t2].aliased /\ ~tasks[t].aliased
           THEN [tasks[t2] EXCEPT !.aliased = FALSE,
                                  !.ctx = user_data.settings[str_uid(1)]]
           ELSE tasks[t2]]
    /\ ret' = [op |-> "return", task |-> t]
    /\ UNCHANGED <<nAdds, issued, sched>>

NextConcurrent ==
    \/ \E t \in Tasks : Receive(t, [kind |-> "message", arg |-> S_milk])
    \/ \E t \in Tasks, n \in {"new", "clear"} :
           Receive(t, [kind |-> "command", arg |-> n])
    \/ \E t \in Tasks : Run(t)
    \/ \E t \in Tasks : Return(t)

SpecConcurrent == Init /\ [][NextConcurrent]_vars

---------------------------------------------------------------------------
(* The page handlers called on a user with n notes *)

MaxItems == 12      \* notes of the user whose pages are shown
MaxPage == 4        \* pages -MaxPage..MaxPage are asked for

S_e == <<"e">>

\* user 1 after n notes made in turn with the two texts, the clock ticking
RECURSIVE made_notes(_)
made_notes(n) ==
    IF n = 0 THEN [notes |-> EmptyDict, settings |-> EmptyDict]
    ELSE LET tx == IF n % 2 = 1
                   THEN [title |-> S_Home, content |-> S_desk, category |-> S_General]
                   ELSE [title |-> S_Tea, content |-> S_milk, category |-> S_Quick]
         IN  add_user_note(made_notes(n - 1), 1, tx.title, tx.content,
                           tx.category, n, n).ud

\* ... and after a search for q, handled by the branch of
\* handle_message_handler that stores the results in the session
searched(ud, q) ==
    [ud EXCEPT !.settings = Put(ud.settings, str_uid(1),
        Put(Put(Put(request_user_data(ud, 1), "awaiting_search", FALSE),
                "last_search_results", search_user_notes(ud, 1, q)),
            "last_search_query", q))]

InitPaginate ==
    /\ \E n \in 0..MaxItems, q \in {S_e, S_qui} :
           user_data = searched(made_notes(n), q)
    /\ nAdds = 0
    /\ ret = Ret0
    /\ issued = [u \in Users |-> <<>>]
    /\ tasks = NoTasks
    /\ sched = NoReminders

NotesPage(u, page, category) ==
    /\ UNCHANGED <<tasks, sched>>
    /\ ret' = [Ret0 EXCEPT !.op = "notes_page", !.u = u, !.page = page,
                           !.cat = category,
                           !.reply = send_notes_page_handler(user_data, u, page,
                                                             category)]
    /\ UNCHANGED <<user_data, nAdds, issued>>

SearchResultsPage(u, page) ==
    /\ UNCHANGED <<tasks, sched>>
    /\ ret' = [Ret0 EXCEPT !.op = "search_page", !.u = u, !.page = page,
                           !.reply = send_search_results_page_handler(
                                         request_user_data(user_data, u), page)]
    /\ UNCHANGED <<user_data, nAdds, issued>>

PageCategories == {<<>>, <<S_All>>, <<S_General>>, <<S_Quick>>}

NextPaginate ==
    \/ \E u \in Users, page \in (-MaxPage)..MaxPage, c \in PageCategories :
           NotesPage(u, page, c)
    \/ \E u \in Users, page \in (-MaxPage)..MaxPage : SearchResultsPage(u, page)

SpecPaginate == InitPaginate /\ [][NextPaginate]_vars

---------------------------------------------------------------------------
(* Properties of the store *)

StrictlyIncreasing(s) == \A i, j \in 1..Len(s) : i < j => s[i] < s[j]

\* C1: over any sequence of add_user_note and delete_user_note calls (and
\* of the other calls that are not /clear) for a user, the ids that
\* add_user_note returned for that user are strictly increasing in call
\* order, so none repeats, whatever was deleted in between.
C1_IdsIncrease ==
    \A u \in Users : StrictlyIncreasing(issued[u])

\* three ids were returned and two of the notes were deleted on the way
C1_Witness ==
    \E u \in Users :
        /\ ret.op = "add" /\ ret.u = u
        /\ Len(issued[u]) = 3
        /\ Len(NotesOf(user_data, u)) = 1

\* C2: in every reachable state no two notes stored for one user have the
\* same note_id.
C2_UniqueIds ==
    \A u \in Users :
        LET s == NotesOf(user_data, u)
        IN  \A i, j \in 1..Len(s) : i # j => s[i].note_id # s[j].note_id

\* one user made three notes, the first before a /clear: ids 1 and 2 are in
\* use a second time
C2_Witness ==
    /\ nAdds = 3 /\ ~Has(user_data.notes, str_uid(2))
    /\ Len(issued[1]) = 2
    /\ Len(NotesOf(user_data, 1)) = 2

IdsOf(ud, u) == {NotesOf(ud, u)[i].note_id : i \in 1..Len(NotesOf(ud, u))}

\* C4: delete_user_note(u, id) leaves no note of u with that id, and no call
\* but add_user_note for u brings an id back to u's notes; while the id is
\* absent, get_user_note(u, id) returns None and delete_user_note(u, id)
\* returns False.  So after a delete the note cannot be got and a second
\* delete returns False, as long as no add_user_note for u comes between.
C4_DeletedStaysAbsent ==
    [][LET u == ret'.u
           id == ret'.id
       IN  /\ ret'.op = "delete" =>
                  /\ id \notin IdsOf(user_data', u)
                  /\ id \notin IdsOf(user_data, u) => ~ret'.ok
           /\ ret'.op = "get" =>
                  (id \notin IdsOf(user_data, u) => ret'.found = <<>>)
           /\ \A v \in Users :
                  \/ ret'.op = "add" /\ ret'.u = v
                  \/ IdsOf(user_data', v) \subseteq IdsOf(user_data, v)
      ]_vars

\* a delete that returns False for an id that add_user_note had returned to
\* the user since the last /clear: the note was deleted before
C4_Witness ==
    /\ ret.op = "delete" /\ ~ret.ok
    /\ \E i \in 1..Len(issued[ret.u]) : issued[ret.u][i] = ret.id

\* C5: after /clear the user's note list is empty and the next add_user_note
\* returns id 1, whatever the state /clear was sent in.
C5_ClearResets ==
    ret.op = "clear" =>
        /\ NotesOf(user_data, ret.u) = <<>>
        /\ add_user_note(user_data, ret.u, <<>>, <<>>, <<>>, 0, 0).id = 1

\* C10: update_user_note_category(u, id, c) returns True iff a note with
\* that id is stored for u; it changes the category of that note and nothing
\* else (no other field, no other note, no other user, not the counters),
\* and changes nothing when it returns False; every c is accepted.
C10_UpdateFrame ==
    [][ret'.op = "update" =>
         LET u == ret'.u
             before == NotesOf(user_data, u)
             after == NotesOf(user_data', u)
         IN  /\ ret'.ok <=> \E i \in 1..Len(before) : before[i].note_id = ret'.id
             /\ Len(after) = Len(before)
             /\ \A i \in 1..Len(before) :
                    after[i] = IF before[i].note_id = ret'.id
                               THEN [before[i] EXCEPT !.category = ret'.q]
                               ELSE before[i]
             /\ \A v \in Users \ {u} :
                    NotesOf(user_data', v) = NotesOf(user_data, v)
             /\ DOMAIN user_data'.notes = DOMAIN user_data.notes
             /\ user_data'.settings = user_data.settings
       ]_vars

\* the second of two notes got the empty category, the first kept its own
C10_Witness ==
    /\ ret.op = "update" /\ ret.ok /\ ret.q = <<>> /\ ret.id = 2
    /\ LET s == NotesOf(user_data, ret.u)
       IN  /\ Len(s) = 2
           /\ s[1].category = S_General /\ s[2].category = <<>>

\* C11: delete_user_note(u, id) returns True iff a note with that id was
\* stored for u before the call; then exactly that one note is gone, and in
\* both cases the other notes of u are kept as they were and in their order,
\* and the counters and the other users' notes are unchanged.
C11_DeleteFrame ==
    [][ret'.op = "delete" =>
         LET u == ret'.u
             before == NotesOf(user_data, u)
             after == NotesOf(user_data', u)
         IN  /\ ret'.ok <=> \E i \in 1..Len(before) : before[i].note_id = ret'.id
             /\ Len(after) = Len(before) - (IF ret'.ok THEN 1 ELSE 0)
             /\ after = SelectSeq(before, LAMBDA n : n.note_id # ret'.id)
             /\ \A v \in Users \ {u} :
                    NotesOf(user_data', v) = NotesOf(user_data, v)
             /\ user_data'.settings = user_data.settings
       ]_vars

\* the second of three notes was deleted: the first and the third are left,
\* in this order
C11_Witness ==
    /\ ret.op = "delete" /\ ret.ok /\ ret.id = 2
    /\ LET s == NotesOf(user_data, ret.u)
       IN  Len(s) = 2 /\ s[1].note_id = 1 /\ s[2].note_id = 3

\* the notes stored for u, as a set
NoteSet(ud, u) == {NotesOf(ud, u)[i] : i \in 1..Len(NotesOf(ud, u))}

\* C19: add_user_note, delete_user_note, update_user_note_category and
\* /clear for a user leave the notes and the counter of every other user
\* as they were; get_user_note, get_user_notes, search_user_notes and
\* get_user_categories for a user return notes (categories) of that user's
\* list only, none of them a note of another user, whatever ids the users
\* share.
C19_Isolation ==
    [][LET u == ret'.u
           others == Users \ {u}
       IN  /\ ret'.op \in {"add", "delete", "update", "clear"} =>
                  \A v \in others :
                      /\ NotesOf(user_data', v) = NotesOf(user_data, v)
                      /\ SessionOf(user_data', v) = SessionOf(user_data, v)
                      /\ Has(user_data'.settings, str_uid(v))
                             <=> Has(user_data.settings, str_uid(v))
           /\ ret'.op = "get" =>
                  \A i \in 1..Len(ret'.found) :
                      /\ ret'.found[i] \in NoteSet(user_data, u)
                      /\ \A v \in others : ret'.found[i] \notin NoteSet(user_data, v)
           /\ ret'.op \in {"list", "search"} =>
                  \A i \in 1..Len(ret'.list) :
                      /\ ret'.list[i] \in NoteSet(user_data, u)
                      /\ \A v \in others : ret'.list[i] \notin NoteSet(user_data, v)
           /\ ret'.op = "categories" =>
                  {ret'.list[i] : i \in 1..Len(ret'.list)}
                      = {n.category : n \in NoteSet(user_data, u)}
      ]_vars

\* both users hold a note with id 1, of different categories, and user 2
\* got its own
C19_Witness ==
    /\ ret.op = "get" /\ ret.u = 2 /\ ret.id = 1 /\ ret.found # <<>>
    /\ ret.found[1] \in NoteSet(user_data, 2)
    /\ \E n \in NoteSet(user_data, 1) :
           n.note_id = 1 /\ n.category # ret.found[1].category

---------------------------------------------------------------------------
(* Properties of the webhook *)

\* C3: whenever the handler of an update calls add_user_note, the call
\* returns an id and raises nothing
C3_AddSucceeds ==
    (ret.op = "webhook" /\ ret.added) => (ret.raised = "" /\ ret.id >= 1)

\* a text message of user 1 is handled from this state in the detailed flow
DetailedFlow ==
    /\ IsSet(SessionOf(user_data, 1), "awaiting_note")
    /\ ~Has(SessionOf(user_data, 1), "awaiting_category_for_note_id")
    /\ ret'.op = "webhook" /\ ret'.update[1].kind = "message"

\* the key of a line of the text, and the value after the key
KeyOf(line) ==
    IF str_startswith(str_lower(line), W_title) THEN "title"
    ELSE IF str_startswith(str_lower(line), W_category) THEN "category"
    ELSE IF str_startswith(str_lower(line), W_content) THEN "content"
    ELSE "none"

ValueOf(line) == str_strip(str_after_first(line, ":"))

\* the values of the lines of ls with key k
ValuesOf(ls, k) == {ValueOf(ls[i]) : i \in {j \in 1..Len(ls) : KeyOf(ls[j]) = k}}

\* C12: a text handled in the detailed flow stores one note; its title,
\* category and content are the trimmed values of the Title:, Category: and
\* Content: lines (keys in any case) where the text has them; with a
\* Content: line the content is that line's value alone, and without one it
\* is the lines without a key, joined in order.
C12_DetailedNote ==
    [][DetailedFlow =>
         LET ls == str_split(ret'.update[1].arg, "\n")
             before == NotesOf(user_data, 1)
             after == NotesOf(user_data', 1)
             n == after[Len(after)]
         IN  /\ Len(after) = Len(before) + 1
             /\ SubSeq(after, 1, Len(before)) = before
             /\ \A t \in ValuesOf(ls, "title") : t # <<>> => n.title = t
             /\ \A c \in ValuesOf(ls, "category") : n.category = c
             /\ \A x \in ValuesOf(ls, "content") : n.content = x
             /\ ValuesOf(ls, "content") = {} =>
                    n.content = str_strip(str_join("\n",
                                    SelectSeq(ls, LAMBDA l : KeyOf(l) = "none")))
      ]_vars

\* C13: a note made in the detailed flow from a text with no Title: line,
\* or with an empty one, has its content as title when the content has at
\* most 50 characters, the first 50 characters of the content and '...'
\* when it is longer, and "Untitled Note" when the content is empty; the
\* title is not empty and has at most 53 characters.
C13_DefaultTitle ==
    [][(DetailedFlow /\ ret'.added /\ ret'.raised = ""
        /\ ValuesOf(str_split(ret'.update[1].arg, "\n"), "title") \subseteq {<<>>}) =>
         LET after == NotesOf(user_data', 1)
             n == after[Len(after)]
         IN  /\ n.note_id = ret'.id
             /\ n.title = IF n.content = <<>> THEN S_Untitled
                          ELSE IF Len(n.content) <= 50 THEN n.content
                          ELSE SubSeq(n.content, 1, 50) \o W_dots
             /\ n.title # <<>>
             /\ Len(n.title) <= 53
      ]_vars

\* a note of 51 characters made in the detailed flow got a title of 53
C13_Witness ==
    /\ ret.op = "webhook" /\ ret.reply.kind = "saved"
    /\ ret.update[1].arg = D_51
    /\ LET s == NotesOf(user_data, 1)
       IN  /\ s[Len(s)].category = S_General
           /\ s[Len(s)].content = D_51
           /\ Len(s[Len(s)].title) = 53

\* C15: pressing the button that /categories made for a category shows
\* page 0 of the notes of exactly that category: the callback data
\* 'view_notes_page_0_cat_<category>' decodes to the pair it was made from.
C15_RoundTrip ==
    [][(/\ ret.op = "webhook" /\ ret.reply.kind = "categories"
        /\ ret'.op = "webhook" /\ ret'.update[1].kind = "callback_query"
        /\ ret'.update[1].arg \in EmittedButtons(ret.reply)) =>
         \A i \in 1..Len(ret.reply.buttons) :
             ret.reply.buttons[i] = ret'.update[1].arg =>
                 /\ ret'.reply.kind = "notes_page"
                 /\ ret'.reply.current_page = 0
                 /\ ret'.reply.all =
                        SelectSeq(get_user_notes(user_data, 1),
                                  LAMBDA n : n.category =
                                             get_user_categories(user_data, 1)[i])
      ]_vars

\* C16: when the handler of a request calls add_user_note while another
\* request of the user is in progress, the call returns an id that no stored
\* note of the user has and its note is appended to the user's notes; the
\* steps of a request outside its handler leave the notes alone, so the
\* notes of both requests end up stored.
C16_InterleavedAdds ==
    [][LET before == NotesOf(user_data, 1)
           after == NotesOf(user_data', 1)
       IN  /\ (/\ ret'.op = "run" /\ ret'.added
               /\ \E t2 \in Tasks \ {ret'.task} : tasks[t2].pc # "idle") =>
                  /\ ret'.raised = ""
                  /\ ret'.id \notin IdsOf(user_data, 1)
                  /\ Len(after) = Len(before) + 1
                  /\ SubSeq(after, 1, Len(before)) = before
                  /\ after[Len(after)].note_id = ret'.id
           /\ ret'.op \in {"receive", "return"} => after = before
      ]_vars

\* the input modes that are active in the session dict d
ActiveModes(d) ==
    {m \in {"awaiting_note", "awaiting_search"} : IsSet(d, m)}
    \cup {m \in {"awaiting_category_for_note_id"} : Has(d, m)}

\* C17: in every state reached by commands, button presses and text
\* messages of a user, at most one of awaiting_note, awaiting_search and
\* awaiting_category_for_note_id is active in the user's session, and none
\* is after a text message was handled.
C17_OneMode ==
    /\ Cardinality(ActiveModes(SessionOf(user_data, 1))) <= 1
    /\ (ret.op = "webhook" /\ ret.update[1].kind = "message") =>
           ActiveModes(SessionOf(user_data, 1)) = {}

\* a text message was taken as the new category of a note, which the
\* session was waiting for: the session waits for nothing now
C17_Witness ==
    /\ ret.op = "webhook" /\ ret.update[1].kind = "message"
    /\ ret.reply.kind = "category_updated"
    /\ ~Has(SessionOf(user_data, 1), "awaiting_category_for_note_id")
    /\ ActiveModes(SessionOf(user_data, 1)) = {}

\* C18: every note listed on a search-results page, the first one after a
\* search or one asked for with a search_results_page_ button, is a note
\* stored for the user now, with the category it has now.
C18_ResultsAreStored ==
    (ret.op = "webhook" /\ ret.reply.kind = "search_page") =>
        \A i \in 1..Len(ret.reply.notes_on_page) :
            \E j \in 1..Len(NotesOf(user_data, 1)) :
                NotesOf(user_data, 1)[j] = ret.reply.notes_on_page[i]

---------------------------------------------------------------------------
(* Properties of the reminder scheduler *)

\* C14: schedule(u, id, fireAt) with fireAt not later than now invokes the
\* notifier in the call itself and registers no timer.
C14_PastFiresAtOnce ==
    [][(ret'.op = "schedule" /\ ret'.fire_at <= sched.now) =>
         /\ ret'.notified = <<[u |-> ret'.u, note_id |-> ret'.id]>>
         /\ sched'.timers = sched.timers
      ]_vars

\* a reminder for time 1 was scheduled at time 2 while a timer was waiting:
\* it is notified of in the call and the timer is still the only one
C14_Witness ==
    /\ ret.op = "schedule" /\ ret.fire_at = 1 /\ sched.now = 2
    /\ Cardinality(sched.timers) = 1
    /\ ret.notified # <<>>

---------------------------------------------------------------------------
(* Properties of the queries *)

\* the instant an ISO string names
TimeOf(iso) == iso[1] * TicksPerSec + (IF Len(iso) > 1 THEN iso[2] ELSE 0)

PosIn(s, n) == CHOOSE i \in 1..Len(s) : s[i] = n

\* C7: get_user_notes returns exactly the stored notes of the user, each
\* once, by created_at descending, notes of equal created_at in storage
\* order; notes created at t1 < t2 < t3 come back as [t3, t2, t1].
C7_ListNotes ==
    ret.op = "list" =>
        LET stored == NotesOf(user_data, ret.u)
            r == ret.list
        IN  /\ Len(r) = Len(stored)
            /\ \A i \in 1..Len(stored) : \E j \in 1..Len(r) : r[j] = stored[i]
            /\ \A i, j \in 1..Len(r) : i < j =>
                   \/ TimeOf(r[i].created_at) > TimeOf(r[j].created_at)
                   \/ /\ TimeOf(r[i].created_at) = TimeOf(r[j].created_at)
                      /\ PosIn(stored, r[i]) < PosIn(stored, r[j])

\* three notes stored in the order of their creation times t1 < t2 < t3
C7_Witness ==
    /\ ret.op = "list" /\ Len(ret.list) = 3
    /\ LET stored == NotesOf(user_data, ret.u)
       IN  /\ TimeOf(stored[1].created_at) < TimeOf(stored[2].created_at)
           /\ TimeOf(stored[2].created_at) < TimeOf(stored[3].created_at)
           /\ ret.list = <<stored[3], stored[2], stored[1]>>

CI_In(q, s) == str_in(str_lower(q), str_lower(s))

\* C8: search_user_notes returns exactly the stored notes of the user whose
\* title, content or category contains the query, case ignored, each once,
\* by created_at descending; "home" finds the note titled "Home Office".
C8_Search ==
    ret.op = "search" =>
        LET stored == NotesOf(user_data, ret.u)
            r == ret.list
        IN  /\ \A i \in 1..Len(stored) :
                   (\E j \in 1..Len(r) : r[j] = stored[i])
                   <=> \/ CI_In(ret.q, stored[i].title)
                       \/ CI_In(ret.q, stored[i].content)
                       \/ CI_In(ret.q, stored[i].category)
            /\ \A j \in 1..Len(r) : \E i \in 1..Len(stored) : stored[i] = r[j]
            /\ \A i, j \in 1..Len(r) : i < j =>
                   /\ r[i] # r[j]
                   /\ TimeOf(r[i].created_at) >= TimeOf(r[j].created_at)

\* "home" finds "Home Office" and leaves out a stored note that has no match
C8_Witness ==
    /\ ret.op = "search" /\ ret.q = S_home
    /\ \E j \in 1..Len(ret.list) : ret.list[j].title = S_Home
    /\ Len(ret.list) < Len(NotesOf(user_data, ret.u))

\* C9: search_user_notes with the empty query returns no note.
C9_EmptyQueryFindsNothing ==
    (ret.op = "search" /\ ret.q = <<>>) => ret.list = <<>>

---------------------------------------------------------------------------
(* Properties of the page handlers *)

\* C6: for a non-empty list of n notes and any requested page, the page
\* handlers (of the notes list and of the search results) compute
\* total_pages = ceil(n / 5), show page max(0, min(page, total_pages - 1))
\* and on it exactly the items at positions [5p, 5p + 5) of the list, which
\* are between 1 and 5 items; 12 notes make 3 pages.
C6_Pages ==
    ret.reply.kind \in {"notes_page", "search_page"} =>
        LET all == ret.reply.all
            n == Len(all)
            total == ret.reply.total_pages
            p == ret.reply.current_page
            shown == ret.reply.notes_on_page
        IN  /\ n > 0
            /\ 5 * total >= n /\ 5 * (total - 1) < n
            /\ ret.page < 0 => p = 0
            /\ ret.page > total - 1 => p = total - 1
            /\ (0 <= ret.page /\ ret.page <= total - 1) => p = ret.page
            /\ Len(shown) >= 1 /\ Len(shown) <= 5
            /\ Len(shown) = (IF n - 5 * p < 5 THEN n - 5 * p ELSE 5)
            /\ \A k \in 1..Len(shown) : shown[k] = all[5 * p + k]
            /\ n = 12 => total = 3

\* 12 notes, a page past the end asked for: the third page, of two notes
C6_Witness ==
    /\ ret.op = "notes_page" /\ ret.reply.kind = "notes_page"
    /\ Len(ret.reply.all) = 12 /\ ret.page = 4
    /\ ret.reply.total_pages = 3 /\ ret.reply.current_page = 2
    /\ Len(ret.reply.notes_on_page) = 2

=============================================================================
